---- MODULE Spec2Model ----
(***************************************************************************)
(* Model of src/amazon_tracker.py: the AmazonTracker check cycle           *)
(* (check_products), add_product, the request signer (sign_request /       *)
(* call_pa_api) and the post renderer (post_to_twitter).                   *)
(*                                                                         *)
(* Text is modelled as sequences of characters.  A character is a string   *)
(* token; non-ASCII characters of the source are written as ASCII tokens:  *)
(*   価 "ka"   格 "kaku"  変 "hen"   動 "dou"   上 "ue"    昇 "shou"        *)
(*   下 "shita" 落 "raku"  円 "en"    在 "zai"   庫 "ko"    状 "jou"         *)
(*   況 "kyou"  更 "kou"   現 "gen"   特 "toku"  値 "ne"    げ "ge"          *)
(*   引 "hiki"  き "ki"    緊 "kin"   急 "kyuu"  速 "soku"  報 "hou"         *)
(*   お "o"     買 "kai"   い "i"     得 "doku"  オ "O"     フ "FU"          *)
(*   タ "TA"    イ "I"     ム "MU"    セ "SE"    ー "-"     ル "RU"          *)
(*   不 "fu"    明 "mei"   切 "kire"  れ "re"    あ "a"     り "ri"          *)
(*   ⬆ "UP"  ⬇ "DOWN"  U+FE0F "VS16"  → "TO"  ・ "DOT"  【 "[["  】 "]]"    *)
(*   🔥 "FIRE"  ✅ "CHECK"  newline "NL"                                    *)
(***************************************************************************)
EXTENDS Integers, Sequences, FiniteSets, TLC

VARIABLES PA_API_KEY, PA_API_SECRET, PARTNER_TAG, twitter_api,
          products, file, pc, asin_chunks, ci, updated_products, pi,
          request_log, last_changes, last_post, clock

vars == <<PA_API_KEY, PA_API_SECRET, PARTNER_TAG, twitter_api,
          products, file, pc, asin_chunks, ci, updated_products, pi,
          request_log, last_changes, last_post, clock>>

-----------------------------------------------------------------------------
(* Python None for an integer (a price) and for a string.                  *)
None == -1
NoneStr == <<"<None>">>

(* Program constants.                                                      *)
BatchSize == 10
TweetLimit == 280
NameBudget == 270
HardCut == 277
MinNameLimit == 10
FlashTenths == 100

(* Bounds of the model.                                                    *)
MaxProducts == 11
MaxClock == 1

-----------------------------------------------------------------------------
(* Character-sequence helpers.                                             *)

Rep(n, c) == [i \in 1..n |-> c]

Min(S) == CHOOSE x \in S : \A y \in S : x <= y

\* Python: sub in s
Contains(s, sub) ==
    \E i \in 1..(Len(s) + 1) :
        /\ i + Len(sub) - 1 <= Len(s)
        /\ SubSeq(s, i, i + Len(sub) - 1) = sub

RECURSIVE Flatten(_)
Flatten(ss) == IF ss = <<>> THEN <<>> ELSE Head(ss) \o Flatten(Tail(ss))

DigitChars == <<"0", "1", "2", "3", "4", "5", "6", "7", "8", "9">>
IsDigit(c) == \E d \in 1..10 : DigitChars[d] = c
DigitValue(c) == (CHOOSE d \in 1..10 : DigitChars[d] = c) - 1

\* str(n) for n >= 0
RECURSIVE Digits(_)
Digits(n) == IF n < 10 THEN <<DigitChars[n + 1]>>
             ELSE Append(Digits(n \div 10), DigitChars[(n % 10) + 1])

\* int(s) for a string of digits
RECURSIVE ParseInt(_)
ParseInt(s) == IF s = <<>> THEN 0
               ELSE 10 * ParseInt(SubSeq(s, 1, Len(s) - 1)) + DigitValue(s[Len(s)])

\* format(n, ","): the digits of n >= 0 with a comma before every group of three
FormatComma(n) ==
    LET d == Digits(n)
        L == Len(d)
    IN  Flatten([i \in 1..L |->
                   IF i < L /\ (L - i) % 3 = 0 THEN <<d[i], ",">> ELSE <<d[i]>>])

\* format(x, ".1f") of a non-negative value given in tenths
FormatFixed1(tenths) == Digits(tenths \div 10) \o <<".">> \o Digits(tenths % 10)

\* s.replace(",", "")
RemoveCommas(s) == SelectSeq(s, LAMBDA c : c # ",")

\* str.replace(old, new): leftmost non-overlapping occurrences; an empty `old`
\* matches before every character and at the end.
RECURSIVE ReplaceFrom(_, _, _, _)
ReplaceFrom(s, old, new, from) ==
    LET m == Len(old)
        occ == {p \in from..(Len(s) - m + 1) : SubSeq(s, p, p + m - 1) = old}
    IN  IF occ = {} THEN SubSeq(s, from, Len(s))
        ELSE LET p == Min(occ)
             IN  SubSeq(s, from, p - 1) \o new \o ReplaceFrom(s, old, new, p + m)

Replace(s, old, new) ==
    IF old = <<>>
    THEN LET k == Len(new)
             n == Len(s)
         IN  [j \in 1..((n + 1) * k + n) |->
                LET b == (j - 1) \div (k + 1)
                    o == (j - 1) % (k + 1)
                IN  IF o < k THEN new[o + 1] ELSE s[b + 1]]
    ELSE ReplaceFrom(s, old, new, 1)

-----------------------------------------------------------------------------
(* The literals of the source.                                             *)

NL == "NL"
KakakuHendou == <<"ka", "kaku", "hen", "dou">>          \* 価格変動
Joushou == <<"ue", "shou">>                             \* 上昇
Geraku == <<"shita", "raku">>                           \* 下落
ZaikoJoukyou == <<"zai", "ko", "jou", "kyou">>          \* 在庫状況
Arrow == <<" ", "TO", " ">>                             \* " → "
Ellipsis == <<".", ".", ".">>                            \* "..."
Bullet == <<"DOT">>                                     \* ・
QTag == <<"?", "t", "a", "g", "=">>                     \* "?tag="
ATag == <<"&", "t", "a", "g", "=">>                     \* "&tag="

\* load_templates: the two built-in templates
templates ==
    [default |->
       [title |-> <<"[[", "A", "m", "a", "z", "o", "n", "ka", "kaku", "DOT",
                    "zai", "ko", "hen", "dou", "]]">>,
        price_up |-> <<"UP", "VS16", " ", "{diff:,}", "en", "ue", "shou", " ",
                       "(", "{percent:.1f}", "%", ")">>,
        price_down |-> <<"DOWN", "VS16", " ", "{diff:,}", "en", "shita", "raku",
                         " ", "(", "{percent:.1f}", "%", ")">>,
        availability_change |-> <<"zai", "ko", "jou", "kyou", ":", " ", "{old}",
                                  " ", "TO", " ", "{new}">>,
        current_price |-> <<"gen", "zai", "ka", "kaku", ":", " ", "{price:,}",
                            "en">>,
        footer |-> <<>>],
     flash_sale |->
       [title |-> <<"FIRE", "[[", "kin", "kyuu", "ne", "shita", "ge", "soku",
                    "hou", "]]", "FIRE">>,
        price_up |-> <<"ne", "ue", "ge", ":", " ", "+", "{diff:,}", "en", " ",
                       "(", "+", "{percent:.1f}", "%", ")">>,
        price_down |-> <<"[[", "ne", "shita", "ge", "]]", "{diff:,}", "en",
                         "hiki", "ki", " ", "(", "{percent:.1f}", "%", "O",
                         "FU", ")">>,
        availability_change |-> <<"zai", "ko", "jou", "kyou", "hen", "kou", ":",
                                  " ", "{old}", " ", "TO", " ", "{new}">>,
        current_price |-> <<"CHECK", " ", "toku", "ka", ":", " ", "{price:,}",
                            "en">>,
        footer |-> <<"#", "o", "kai", "i", "doku", " ", "#", "TA", "I", "MU",
                     "SE", "-", "RU">>]]

\* str.format: every replacement field of the pattern is replaced by its
\* (already formatted) argument
Format(pattern, args) ==
    Flatten([i \in 1..Len(pattern) |->
               IF pattern[i] \in DOMAIN args THEN args[pattern[i]]
               ELSE <<pattern[i]>>])

-----------------------------------------------------------------------------
(* check_products, lines 371-389: the change texts.                        *)

\* f"({abs(diff_percent):.1f}%)" with diff_percent = (diff / last_price) * 100
\* if last_price > 0 else 0: the percentage in tenths, rounded to the nearest
\* tenth.  An exact decimal tie (x.x5) is decided by the binary value of the
\* float, so `tie` (0 or 1) stands for either outcome.
PercentTenths(absdiff, last_price, tie) ==
    IF last_price > 0
    THEN LET q == (absdiff * 1000) \div last_price
             r == (absdiff * 1000) % last_price
         IN  IF 2 * r > last_price THEN q + 1
             ELSE IF 2 * r = last_price THEN q + tie
             ELSE q
    ELSE 0

Abs(x) == IF x < 0 THEN 0 - x ELSE x

\* lines 380-383: f"価格変動: {change_text} {percent_text}"
PriceChangeText(current_price, last_price, tie) ==
    LET diff == current_price - last_price
        change_text ==
            IF diff > 0
            THEN <<"UP", "VS16", " ">> \o FormatComma(Abs(diff)) \o <<"en">> \o Joushou
            ELSE <<"DOWN", "VS16", " ">> \o FormatComma(Abs(diff)) \o <<"en">> \o Geraku
        percent_text ==
            <<"(">> \o FormatFixed1(PercentTenths(Abs(diff), last_price, tie))
                \o <<"%", ")">>
    IN  KakakuHendou \o <<":", " ">> \o change_text \o <<" ">> \o percent_text

\* line 388: f"在庫状況: {last_availability} → {current_availability}"
AvailabilityChangeText(last_availability, current_availability) ==
    ZaikoJoukyou \o <<":", " ">> \o last_availability \o Arrow \o current_availability

\* lines 371, 387: the two detection conditions
PriceChanged(current_price, last_price) ==
    current_price # None /\ last_price # None /\ current_price # last_price

AvailabilityChanged(current_availability, last_availability) ==
    /\ current_availability # NoneStr
    /\ last_availability # NoneStr
    /\ current_availability # last_availability

-----------------------------------------------------------------------------
(* post_to_twitter: the regular expressions.                               *)

NoMatch == <<"<no match>">>

\* \d+,?\d*
IsDiffGroup(g) ==
    \E a \in 1..Len(g) :
        /\ \A k \in 1..a : IsDigit(g[k])
        /\ \/ a = Len(g)
           \/ /\ g[a + 1] = ","
              /\ \A k \in (a + 2)..Len(g) : IsDigit(g[k])

\* re.search(r'(\d+,?\d*)' + suffix, change).group(1): the leftmost match
DiffMatch(change, suffix) ==
    LET ends(i) == {e \in i..Len(change) :
                      /\ e + Len(suffix) <= Len(change)
                      /\ SubSeq(change, e + 1, e + Len(suffix)) = suffix
                      /\ IsDiffGroup(SubSeq(change, i, e))}
        starts == {i \in 1..Len(change) : IsDigit(change[i]) /\ ends(i) # {}}
    IN  IF starts = {} THEN NoMatch
        ELSE LET i == Min(starts) IN SubSeq(change, i, Min(ends(i)))

\* \d+\.\d+
IsPercentGroup(g) ==
    \E a \in 1..(Len(g) - 2) :
        /\ \A k \in 1..a : IsDigit(g[k])
        /\ g[a + 1] = "."
        /\ \A k \in (a + 2)..Len(g) : IsDigit(g[k])

\* re.search(r'\((\d+\.\d+)%\)', change).group(1): the leftmost match
PercentMatch(change) ==
    LET ends(i) == {e \in (i + 1)..Len(change) :
                      /\ e + 2 <= Len(change)
                      /\ change[e + 1] = "%"
                      /\ change[e + 2] = ")"
                      /\ IsPercentGroup(SubSeq(change, i + 1, e))}
        starts == {i \in 1..Len(change) : change[i] = "(" /\ ends(i) # {}}
    IN  IF starts = {} THEN NoMatch
        ELSE LET i == Min(starts) IN SubSeq(change, i + 1, Min(ends(i)))

\* float(group) of a matched percentage, in tenths (the texts the tracker
\* writes carry one decimal; further decimals are dropped here)
ParseTenths(g) ==
    LET dot == CHOOSE a \in 1..Len(g) : g[a] = "."
    IN  10 * ParseInt(SubSeq(g, 1, dot - 1)) + DigitValue(g[dot + 1])

\* re.search(r'在庫状況: (.*) → (.*)', change): both groups, the first greedy
StatusMatch(change) ==
    LET head == ZaikoJoukyou \o <<":", " ">>
        hs == {i \in 1..Len(change) :
                 /\ i + Len(head) - 1 <= Len(change)
                 /\ SubSeq(change, i, i + Len(head) - 1) = head
                 /\ \E a \in (i + Len(head))..(Len(change) - 2) :
                        SubSeq(change, a, a + 2) = Arrow}
    IN  IF hs = {} THEN <<NoMatch, NoMatch>>
        ELSE LET i == Min(hs)
                 as == {a \in (i + Len(head))..(Len(change) - 2) :
                          SubSeq(change, a, a + 2) = Arrow}
                 a == CHOOSE x \in as : \A y \in as : y <= x
             IN  <<SubSeq(change, i + Len(head), a - 1),
                   SubSeq(change, a + 3, Len(change))>>

-----------------------------------------------------------------------------
(* post_to_twitter.                                                        *)

Truthy(str) == str # NoneStr /\ str # <<>>

\* lines 419-421 (and 297-299): append the affiliate tag when it is missing
TaggedUrl(url, tag) ==
    IF ~Contains(url, QTag) /\ ~Contains(url, ATag) /\ Truthy(tag)
    THEN url \o (IF Contains(url, <<"?">>) THEN <<"&">> ELSE <<"?">>)
             \o <<"t", "a", "g", "=">> \o tag
    ELSE url

\* lines 425-435: "flash_sale" when a price-drop text carries a percentage
\* of at least 10.0
SelectTemplate(changes) ==
    IF \E i \in 1..Len(changes) :
          /\ Contains(changes[i], KakakuHendou)
          /\ Contains(changes[i], Geraku)
          /\ PercentMatch(changes[i]) # NoMatch
          /\ ParseTenths(PercentMatch(changes[i])) >= FlashTenths
    THEN "flash_sale"
    ELSE "default"

\* lines 442-471: the line of the post for one change text; kind "none" adds
\* nothing to the post
NoLine == [kind |-> "none", diff |-> 0, percent |-> 0, text |-> <<>>]

PriceLine(change, template, suffix, field, kind) ==
    LET diff_match == DiffMatch(change, <<"en">> \o suffix)
        percent_match == PercentMatch(change)
    IN  IF diff_match # NoMatch /\ percent_match # NoMatch
        THEN LET diff == ParseInt(RemoveCommas(diff_match))
                 percent == ParseTenths(percent_match)
             IN  [kind |-> kind, diff |-> diff, percent |-> percent,
                  text |-> Bullet
                           \o Format(template[field],
                                     ("{diff:,}" :> FormatComma(diff))
                                     @@ ("{percent:.1f}" :> FormatFixed1(percent)))
                           \o <<NL>>]
        ELSE NoLine

ChangeLine(change, template) ==
    IF Contains(change, KakakuHendou)
    THEN IF Contains(change, Joushou)
         THEN PriceLine(change, template, Joushou, "price_up", "price_up")
         ELSE IF Contains(change, Geraku)
         THEN PriceLine(change, template, Geraku, "price_down", "price_down")
         ELSE NoLine
    ELSE IF Contains(change, ZaikoJoukyou)
    THEN LET status_match == StatusMatch(change)
         IN  IF status_match[1] # NoMatch
             THEN [kind |-> "availability", diff |-> 0, percent |-> 0,
                   text |-> Bullet
                            \o Format(template.availability_change,
                                      ("{old}" :> status_match[1])
                                      @@ ("{new}" :> status_match[2]))
                            \o <<NL>>]
             ELSE NoLine
    ELSE [kind |-> "other", diff |-> 0, percent |-> 0,
          text |-> Bullet \o change \o <<NL>>]

\* lines 440-480: the post before the length adjustment
BuildPost(template, name, lines, current_price, url) ==
    template.title \o <<NL>> \o name \o <<NL, NL>>
    \o Flatten([i \in 1..Len(lines) |-> lines[i].text])
    \o (IF current_price # None /\ current_price # 0
        THEN <<NL>> \o Format(template.current_price,
                              "{price:,}" :> FormatComma(current_price))
                    \o <<NL>>
        ELSE <<>>)
    \o (IF template.footer # <<>> THEN <<NL>> \o template.footer \o <<NL>> ELSE <<>>)
    \o <<NL>> \o url

\* x[:n] for n >= 0
Prefix(x, n) == SubSeq(x, 1, IF n < Len(x) THEN n ELSE Len(x))

Max2(a, b) == IF a > b THEN a ELSE b

\* lines 483-487: shorten the product name
ShortenName(post, name) ==
    IF Len(post) > TweetLimit
    THEN LET name_limit == Max2(MinNameLimit, Len(name) - (Len(post) - NameBudget))
             short_name == Prefix(name, name_limit) \o Ellipsis
         IN  Replace(post, name, short_name)
    ELSE post

\* variant of HardTruncate: the ellipsis is added to a full-length cut
HardTruncateLate(post) ==
    IF Len(post) > TweetLimit
    THEN SubSeq(post, 1, TweetLimit) \o <<".", ".", ".">>
    ELSE post

\* lines 490-491: cut what is still too long
HardTruncate(post) ==
    IF Len(post) > TweetLimit THEN Prefix(post, HardCut) \o Ellipsis ELSE post

NotPosted == [attempted |-> FALSE, template_name |-> "", lines |-> <<>>,
              built |-> <<>>, shortened |-> <<>>, post |-> <<>>]

\* post_to_twitter(product, changes): what is handed to update_status, with
\* the template chosen and the lines written on the way
PostToTwitter(api, tag, product, changes) ==
    IF ~api THEN NotPosted
    ELSE LET name == product.name
             url == TaggedUrl(product.url, tag)
             current_price == product.last_price
             template_name == SelectTemplate(changes)
             template == IF template_name \in DOMAIN templates
                         THEN templates[template_name] ELSE templates["default"]
             lines == SelectSeq([i \in 1..Len(changes) |->
                                   ChangeLine(changes[i], template)],
                                LAMBDA l : l.kind # "none")
             built == BuildPost(template, name, lines, current_price, url)
             shortened == ShortenName(built, name)
         IN  [attempted |-> TRUE, template_name |-> template_name,
              lines |-> lines, built |-> built, shortened |-> shortened,
              post |-> HardTruncate(shortened)]

-----------------------------------------------------------------------------
(* sign_request, call_pa_api, parse_pa_api_response.                       *)

\* sign_request: 'AWS4' + PA_API_SECRET raises TypeError when the secret is
\* None; an absent access key is formatted into the header as "None"
SignRequest(key, secret) ==
    IF secret = NoneStr
    THEN [raised |-> TRUE, Authorization |-> NoneStr]
    ELSE [raised |-> FALSE,
          Authorization |-> <<"Credential=">>
                            \o (IF key = NoneStr THEN <<"None">> ELSE key)]

\* the payload and headers of one requests.post of call_pa_api, with the
\* kind of answer it got; `compared` is the number of products the
\* change-detection loop has gone through when the request is issued
Request(asin_list, key, secret, tag, compared, answer) ==
    [ItemIds |-> asin_list,
     PartnerTag |-> tag,
     Authorization |-> SignRequest(key, secret).Authorization,
     compared |-> compared,
     answer |-> answer]

InStock == <<"zai", "ko", "a", "ri">>          \* 在庫あり
OutOfStock == <<"zai", "ko", "kire", "re">>        \* 在庫切れ
Fumei == <<"fu", "mei">>                       \* 不明

\* f"https://www.amazon.co.jp/dp/{asin}?tag={PARTNER_TAG}"
DpUrl(asin, tag) ==
    <<"h", "t", "t", "p", "s", ":", "/", "/", "w", "w", "w", ".", "a", "m", "a",
      "z", "o", "n", ".", "c", "o", ".", "j", "p", "/", "d", "p", "/">>
    \o Digits(asin) \o QTag \o (IF tag = NoneStr THEN <<"None">> ELSE tag)

\* call_pa_api: None for a transport error or a status other than 200
\* (lines 223-231), else the decoded document
CallPaApi(response) ==
    IF response.kind \in {"error", "status"} THEN [kind |-> "None"] ELSE response

\* `not api_response`: None or an empty document
Falsy(api_response) == api_response.kind \in {"None", "empty"}

\* parse_pa_api_response: item id -> record; a later item of the same id
\* replaces an earlier one
ParsePaApiResponse(response, tag) ==
    IF response.kind # "items" THEN <<>>
    ELSE LET items == response.Items
             last(a) == CHOOSE i \in 1..Len(items) :
                           /\ items[i].ASIN = a
                           /\ \A j \in (i + 1)..Len(items) : items[j].ASIN # a
         IN  [a \in {items[i].ASIN : i \in 1..Len(items)} |->
                LET item == items[last(a)]
                IN  [title |-> IF item.Title = NoneStr THEN Fumei ELSE item.Title,
                     price |-> item.Amount,
                     availability |-> IF item.Message = NoneStr THEN Fumei
                                      ELSE item.Message,
                     detail_page_url |-> IF item.DetailPageURL = NoneStr
                                         THEN DpUrl(a, tag)
                                         ELSE item.DetailPageURL]]

\* dict.update
Update(d, e) == [a \in DOMAIN d \cup DOMAIN e |-> IF a \in DOMAIN e THEN e[a] ELSE d[a]]

-----------------------------------------------------------------------------
(* add_product and the body of the change-detection loop.                  *)

\* lines 291-315: the product built from a fetched record
NewProduct(asin, item_info, tag, now) ==
    [asin |-> asin,
     name |-> item_info.title,
     url |-> TaggedUrl(item_info.detail_page_url, tag),
     last_price |-> item_info.price,
     last_availability |-> item_info.availability,
     last_checked |-> now,
     price_history |-> <<[price |-> item_info.price, timestamp |-> now]>>]

\* lines 368-389: the change texts of one product
Changes(product, item_info, tie) ==
    (IF PriceChanged(item_info.price, product.last_price)
     THEN <<PriceChangeText(item_info.price, product.last_price, tie)>>
     ELSE <<>>)
    \o (IF AvailabilityChanged(item_info.availability, product.last_availability)
        THEN <<AvailabilityChangeText(product.last_availability,
                                      item_info.availability)>>
        ELSE <<>>)

\* variant of AppendHistory: a price already in the history is not appended
AppendHistoryDedup(product, item_info, now) ==
    IF /\ item_info.price # None
       /\ product.last_price # None
       /\ item_info.price # product.last_price
       /\ \A k \in 1..Len(product.price_history) :
             product.price_history[k].price # item_info.price
    THEN Append(product.price_history,
                [price |-> item_info.price, timestamp |-> now])
    ELSE product.price_history

\* line 378: the history after the price comparison
AppendHistory(product, item_info, now) ==
    IF PriceChanged(item_info.price, product.last_price)
    THEN Append(product.price_history,
                [price |-> item_info.price, timestamp |-> now])
    ELSE product.price_history

\* variant of UpdateProduct: the product is stamped whether or not it changed
UpdateProductAlways(product, item_info, changes, now) ==
    [product EXCEPT !.price_history =
                        IF /\ item_info.price # None
                           /\ product.last_price # None
                           /\ item_info.price # product.last_price
                        THEN Append(product.price_history,
                                    [price |-> item_info.price, timestamp |-> now])
                        ELSE product.price_history,
                    !.last_price = item_info.price,
                    !.last_availability = item_info.availability,
                    !.last_checked = now]

\* lines 392-396: the product after the comparison
UpdateProduct(product, item_info, changes, now) ==
    IF changes # <<>>
    THEN [product EXCEPT !.price_history = AppendHistory(product, item_info, now),
                         !.last_price = item_info.price,
                         !.last_availability = item_info.availability,
                         !.last_checked = now]
    ELSE [product EXCEPT !.price_history = AppendHistory(product, item_info, now)]

\* variant of AsinChunks: chunks one item id too long
AsinChunksWide(ps) ==
    LET size == BatchSize + 1
    IN  [c \in 1..((Len(ps) + size - 1) \div size) |->
           [k \in 1..(IF c * size <= Len(ps) THEN size
                      ELSE Len(ps) - (c - 1) * size) |->
              ps[(c - 1) * size + k].asin]]

\* lines 330-333: the item ids in chunks of ten
AsinChunks(ps) ==
    [c \in 1..((Len(ps) + BatchSize - 1) \div BatchSize) |->
       [k \in 1..(IF c * BatchSize <= Len(ps) THEN BatchSize
                  ELSE Len(ps) - (c - 1) * BatchSize) |->
          ps[(c - 1) * BatchSize + k].asin]]

-----------------------------------------------------------------------------
(* The inputs of the model: credentials, catalog answers, stored products. *)

KeyValue == <<"K">>
SecretValue == <<"S">>
TagValue == <<"t", "g">>

\* the environment: fully configured, or one of the three values unset
Environments ==
    {<<KeyValue, SecretValue, TagValue>>, <<NoneStr, SecretValue, TagValue>>,
     <<KeyValue, NoneStr, TagValue>>, <<KeyValue, SecretValue, NoneStr>>}

ProductName(asin) == <<"P">> \o Digits(asin)

\* what the catalog may say of an item: Amount None stands for a listing
\* without a price, Message NoneStr for one without an availability message
Fresh ==
    {[Amount |-> 1000, Message |-> InStock],
     [Amount |-> 800, Message |-> InStock],
     [Amount |-> 800, Message |-> OutOfStock],
     [Amount |-> None, Message |-> NoneStr]}

Item(asin, f) ==
    [ASIN |-> asin, Title |-> ProductName(asin), Amount |-> f.Amount,
     Message |-> f.Message, DetailPageURL |-> NoneStr]

\* the answers to a request for asin_list: a transport error, a status other
\* than 200, an empty document, items for every id, or items for all ids but
\* the first
Responses(asin_list) ==
    {[kind |-> "error"], [kind |-> "status"], [kind |-> "empty"]}
    \cup {[kind |-> "items",
           Items |-> [k \in 1..Len(asin_list) |-> Item(asin_list[k], f)]] :
            f \in Fresh}
    \cup {[kind |-> "items",
           Items |-> [k \in 1..(Len(asin_list) - 1) |->
                        Item(asin_list[k + 1],
                             [Amount |-> 800, Message |-> OutOfStock])]]}

\* a stored product as add_product and earlier cycles leave it
StoredProduct(asin) ==
    LET m == asin % 3
    IN  [asin |-> asin,
         name |-> ProductName(asin),
         url |-> DpUrl(asin, TagValue),
         last_price |-> IF m = 1 THEN 1000 ELSE IF m = 2 THEN 800 ELSE None,
         last_availability |-> IF asin % 2 = 1 THEN InStock ELSE OutOfStock,
         last_checked |-> 0,
         price_history |->
            IF m = 1 THEN <<[price |-> 1000, timestamp |-> 0]>>
            ELSE IF m = 2 THEN <<[price |-> 1000, timestamp |-> 0],
                                 [price |-> 800, timestamp |-> 0]>>
            ELSE <<[price |-> None, timestamp |-> 0]>>]

Stores == {<<>>, [k \in 1..MaxProducts |-> StoredProduct(k)]}

-----------------------------------------------------------------------------
(* The tracker as a state machine.                                         *)

\* AmazonTracker.__init__ on a stored file: load_products, setup_twitter_api
Init ==
    /\ \E env \in Environments :
          /\ PA_API_KEY = env[1]
          /\ PA_API_SECRET = env[2]
          /\ PARTNER_TAG = env[3]
    /\ twitter_api \in BOOLEAN
    /\ file \in Stores
    /\ products = file
    /\ pc = "idle"
    /\ asin_chunks = <<>>
    /\ ci = 0
    /\ updated_products = <<>>
    /\ pi = 0
    /\ request_log = <<>>
    /\ last_changes = <<>>
    /\ last_post = NotPosted
    /\ clock = 0

Config == <<PA_API_KEY, PA_API_SECRET, PARTNER_TAG, twitter_api>>

\* add_product(asin), lines 278-321, for an item id not tracked yet
AddProduct(response) ==
    LET asin == Len(products) + 1
        api_response == CallPaApi(response)
        product_info == ParsePaApiResponse(api_response, PARTNER_TAG)
    IN  /\ pc = "idle"
        /\ Len(products) < MaxProducts
        /\ clock < MaxClock
        /\ clock' = clock + 1
        /\ IF SignRequest(PA_API_KEY, PA_API_SECRET).raised
           THEN /\ pc' = "crashed"
                /\ UNCHANGED <<products, file, request_log>>
           ELSE /\ pc' = "idle"
                /\ request_log' = <<Request(<<asin>>, PA_API_KEY, PA_API_SECRET,
                                            PARTNER_TAG, 0, response.kind)>>
                /\ IF Falsy(api_response) \/ asin \notin DOMAIN product_info
                   THEN UNCHANGED <<products, file>>
                   ELSE /\ products' = Append(products,
                                              NewProduct(asin, product_info[asin],
                                                         PARTNER_TAG, clock'))
                        /\ file' = products'
        /\ UNCHANGED <<Config, asin_chunks, ci, updated_products, pi,
                       last_changes, last_post>>

\* check_products, lines 325-335: nothing to do, or the chunks are built
CheckBegin ==
    /\ pc = "idle"
    /\ clock < MaxClock
    /\ clock' = clock + 1
    /\ IF products = <<>>
       THEN UNCHANGED <<pc, asin_chunks, ci, updated_products, pi, request_log>>
       ELSE /\ pc' = "fetch"
            /\ asin_chunks' = AsinChunks(products)
            /\ ci' = 1
            /\ updated_products' = <<>>
            /\ pi' = 1
            /\ request_log' = <<>>
    /\ last_changes' = <<>>
    /\ last_post' = NotPosted
    /\ UNCHANGED <<Config, products, file>>

\* variant of PcAfterChunk: `break` after a failed batch
PcAfterChunkBreak(next_ci, nchunks, failed) ==
    IF failed \/ next_ci > nchunks THEN "diff" ELSE "fetch"

\* lines 338-350: `continue` after a failed batch, as after a good one: the
\* loop goes on while chunks are left
PcAfterChunk(next_ci, nchunks, failed) ==
    IF next_ci > nchunks THEN "diff" ELSE "fetch"

\* lines 338-352: one pass of the fetch loop
FetchChunk(response) ==
    LET asin_list == asin_chunks[ci]
        api_response == CallPaApi(response)
        product_info == ParsePaApiResponse(api_response, PARTNER_TAG)
    IN  /\ pc = "fetch"
        /\ IF SignRequest(PA_API_KEY, PA_API_SECRET).raised
           THEN /\ pc' = "crashed"
                /\ UNCHANGED <<ci, updated_products, request_log>>
           ELSE /\ request_log' = Append(request_log,
                                         Request(asin_list, PA_API_KEY, PA_API_SECRET,
                                                 PARTNER_TAG, pi - 1, response.kind))
                /\ updated_products' =
                      IF Falsy(api_response) \/ DOMAIN product_info = {}
                      THEN updated_products
                      ELSE Update(updated_products, product_info)
                /\ ci' = ci + 1
                /\ pc' = PcAfterChunk(ci', Len(asin_chunks),
                                       Falsy(api_response)
                                       \/ DOMAIN product_info = {})
        /\ UNCHANGED <<Config, products, file, asin_chunks, pi, last_changes,
                       last_post, clock>>

\* lines 355-401: one pass of the change-detection loop
CompareProduct(tie) ==
    LET product == products[pi]
    IN  /\ pc = "diff"
        /\ pi <= Len(products)
        /\ pi' = pi + 1
        /\ IF product.asin \notin DOMAIN updated_products
           THEN /\ last_changes' = <<>>
                /\ last_post' = NotPosted
                /\ UNCHANGED products
           ELSE LET item_info == updated_products[product.asin]
                    changes == Changes(product, item_info, tie)
                    updated == UpdateProduct(product, item_info, changes, clock)
                IN  /\ last_changes' = changes
                    /\ products' = [products EXCEPT ![pi] = updated]
                    /\ last_post' = IF changes # <<>>
                                    THEN PostToTwitter(twitter_api, PARTNER_TAG,
                                                       updated, changes)
                                    ELSE NotPosted
        /\ UNCHANGED <<Config, file, pc, asin_chunks, ci, updated_products,
                       request_log, clock>>

\* line 404: save_products at the end of the cycle
SaveProducts ==
    /\ pc = "diff"
    /\ pi > Len(products)
    /\ file' = products
    /\ pc' = "idle"
    /\ asin_chunks' = <<>>
    /\ ci' = 0
    /\ updated_products' = <<>>
    /\ pi' = 0
    /\ UNCHANGED <<Config, products, request_log, last_changes, last_post, clock>>

\* main, lines 532-537: KeyboardInterrupt during a cycle ends the process
Interrupt ==
    /\ pc \in {"fetch", "diff"}
    /\ pc' = "stopped"
    /\ UNCHANGED <<Config, products, file, asin_chunks, ci, updated_products, pi,
                   request_log, last_changes, last_post, clock>>

\* main, line 502: the next process reads the stored file
Restart ==
    /\ pc \in {"stopped", "crashed"}
    /\ products' = file
    /\ pc' = "idle"
    /\ asin_chunks' = <<>>
    /\ ci' = 0
    /\ updated_products' = <<>>
    /\ pi' = 0
    /\ request_log' = <<>>
    /\ last_changes' = <<>>
    /\ last_post' = NotPosted
    /\ UNCHANGED <<Config, file, clock>>

Next ==
    \/ \E response \in Responses(<<Len(products) + 1>>) : AddProduct(response)
    \/ CheckBegin
    \/ \E response \in Responses(IF pc = "fetch" THEN asin_chunks[ci] ELSE <<>>) :
          FetchChunk(response)
    \/ \E tie \in {0, 1} : CompareProduct(tie)
    \/ SaveProducts
    \/ Interrupt
    \/ Restart

Spec == Init /\ [][Next]_vars

-----------------------------------------------------------------------------
(* The change detection and the renderer on their own: one tracked product *)
(* with its fresh record already fetched, over wider inputs.               *)

LongLen == 300

Names == {<<>>, <<"a">>, Rep(5, "x"), Rep(12, "x"), Rep(LongLen, "x")}

LongUrl ==
    <<"h", "t", "t", "p", "s", ":", "/", "/", "a", "m", "z", "n", ".", "t", "o",
      "/">> \o Rep(LongLen, "u")

Urls == {DpUrl(1, TagValue), LongUrl, LongUrl \o <<"?", "r", "e", "f", "=", "1">>}

\* <<stored last_price, fresh price>>
PricePairs ==
    {<<1000, 1000>>, <<1000, 800>>, <<1000, 950>>, <<1000, 900>>, <<3000, 2701>>,
     <<2000, 2001>>, <<1000, 2000>>, <<800, 1800>>, <<2000000, 1000000>>,
     <<1000000, 2234567>>, <<None, 500>>, <<1000, None>>, <<0, 500>>, <<500, 0>>}

\* <<stored last_availability, fresh availability>>
AvailabilityPairs ==
    {<<InStock, InStock>>, <<InStock, OutOfStock>>, <<OutOfStock, Rep(LongLen, "v")>>}

InitPost ==
    /\ PA_API_KEY = KeyValue
    /\ PA_API_SECRET = SecretValue
    /\ PARTNER_TAG \in {TagValue, NoneStr}
    /\ twitter_api \in BOOLEAN
    /\ \E name \in Names, url \in Urls, pp \in PricePairs, ap \in AvailabilityPairs :
          /\ file = <<[asin |-> 1, name |-> name, url |-> url,
                       last_price |-> pp[1], last_availability |-> ap[1],
                       last_checked |-> 0,
                       price_history |-> <<[price |-> pp[1], timestamp |-> 0]>>]>>
          /\ updated_products =
                (1 :> [title |-> name, price |-> pp[2], availability |-> ap[2],
                       detail_page_url |-> url])
    /\ products = file
    /\ pc = "diff"
    /\ asin_chunks = AsinChunks(products)
    /\ ci = 2
    /\ pi = 1
    /\ request_log = <<Request(<<1>>, PA_API_KEY, PA_API_SECRET, PARTNER_TAG, 0,
                               "items")>>
    /\ last_changes = <<>>
    /\ last_post = NotPosted
    /\ clock = 1

NextPost ==
    \/ \E tie \in {0, 1} : CompareProduct(tie)
    \/ SaveProducts

SpecPost == InitPost /\ [][NextPost]_vars

-----------------------------------------------------------------------------
(* sign_request against the wall clock.  `clock` is the wall clock in      *)
(* seconds since the epoch; the signer reads it twice, and it may advance  *)
(* before and between the two readings.                                    *)

REGION == <<"u", "s", "-", "w", "e", "s", "t", "-", "2">>
service == <<"ProductAdvertisingAPI">>
algorithm == <<"AWS4-HMAC-SHA256">>
Aws4Request == <<"aws4_request">>

\* a strftime field: the decimal digits of n, zero-padded to width w
Pad(n, w) == Rep(w - Len(Digits(n)), "0") \o Digits(n)

\* datetime.utcnow() when the clock reads t: the fields of the UTC
\* (proleptic Gregorian) calendar date and time of day
UtcNow(t) ==
    LET days == t \div 86400
        secs == t % 86400
        z == days + 719468
        era == z \div 146097
        doe == z % 146097
        yoe == (doe - doe \div 1460 + doe \div 36524 - doe \div 146096) \div 365
        doy == doe - (365 * yoe + yoe \div 4 - yoe \div 100)
        mp == (5 * doy + 2) \div 153
        month == IF mp < 10 THEN mp + 3 ELSE mp - 9
    IN  [year |-> yoe + era * 400 + (IF month <= 2 THEN 1 ELSE 0),
         month |-> month,
         day |-> doy - (153 * mp + 2) \div 5 + 1,
         hour |-> secs \div 3600,
         minute |-> (secs % 3600) \div 60,
         second |-> secs % 60]

\* .strftime('%Y%m%dT%H%M%SZ')
StrftimeAmzDate(dt) ==
    Pad(dt.year, 4) \o Pad(dt.month, 2) \o Pad(dt.day, 2) \o <<"T">>
    \o Pad(dt.hour, 2) \o Pad(dt.minute, 2) \o Pad(dt.second, 2) \o <<"Z">>

\* .strftime('%Y%m%d')
StrftimeDatestamp(dt) == Pad(dt.year, 4) \o Pad(dt.month, 2) \o Pad(dt.day, 2)

\* sign_request(host, path, payload), lines 126-196, when the first
\* utcnow() (line 129) reads `first` and the second (line 130) reads
\* `second`.  A digest is modelled by the values it is computed from.
SignRequestAt(key, secret, payload, first, second) ==
    LET amz_date == StrftimeAmzDate(UtcNow(first))
        datestamp == StrftimeDatestamp(UtcNow(second))
        canonical_request == [x_amz_date |-> amz_date, payload |-> payload]
        credential_scope == datestamp \o <<"/">> \o REGION \o <<"/">> \o service
                            \o <<"/">> \o Aws4Request
        string_to_sign == [algorithm |-> algorithm,
                           amz_date |-> amz_date,
                           credential_scope |-> credential_scope,
                           canonical_request |-> canonical_request]
        signing_key == <<<<"AWS4">> \o secret, datestamp, REGION, service,
                         Aws4Request>>
    IN  [raised |-> SignRequest(key, secret).raised,
         x_amz_date |-> amz_date,
         Authorization |->
            [Credential |-> SignRequest(key, secret).Authorization \o <<"/">>
                            \o credential_scope,
             credential_scope |-> credential_scope,
             Signature |-> [signing_key |-> signing_key,
                            string_to_sign |-> string_to_sign]]]

\* bounds: the seconds the clock may advance before a reading, and the
\* requests signed in one behaviour
MaxDrift == 1
MaxRequests == 2

\* 00:00:00 UTC of 2024-02-29, 2024-03-01, 2025-01-01 and 2025-06-15
Midnights == {1709164800, 1709251200, 1735689600, 1749945600}

\* the last two seconds of the days before
Instants == UNION {{m - 2, m - 1} : m \in Midnights}

InitSign ==
    /\ \E env \in Environments :
          /\ PA_API_KEY = env[1]
          /\ PA_API_SECRET = env[2]
          /\ PARTNER_TAG = env[3]
    /\ twitter_api = FALSE
    /\ file = <<>>
    /\ products = file
    /\ pc = "idle"
    /\ asin_chunks = <<>>
    /\ ci = 0
    /\ updated_products = <<>>
    /\ pi = 0
    /\ request_log = <<>>
    /\ last_changes = <<>>
    /\ last_post = NotPosted
    /\ clock \in Instants

\* call_pa_api, lines 198-219: the headers of one request are signed; the
\* clock advances by `before` up to line 129 and by `between` from there to
\* line 130
Sign(asin_list, before, between) ==
    LET first == clock + before
        second == first + between
        headers == SignRequestAt(PA_API_KEY, PA_API_SECRET, asin_list, first,
                                 second)
    IN  /\ pc = "idle"
        /\ Len(request_log) < MaxRequests
        /\ clock' = second
        /\ IF headers.raised
           THEN /\ pc' = "crashed"
                /\ UNCHANGED request_log
           ELSE /\ request_log' = Append(request_log, headers)
                /\ UNCHANGED pc
        /\ UNCHANGED <<Config, products, file, asin_chunks, ci, updated_products,
                       pi, last_changes, last_post>>

NextSign == \E before \in 0..MaxDrift, between \in 0..MaxDrift :
                Sign(<<1>>, before, between)

SpecSign == InitSign /\ [][NextSign]_vars

-----------------------------------------------------------------------------
(* Properties.  While a cycle runs, `file` still holds every product as it *)
(* was before the cycle, and products[1..pi-1] are the products the        *)
(* change-detection loop has gone through.                                 *)

Looked(j) == file[j].asin \in DOMAIN updated_products
FreshOf(j) == updated_products[file[j].asin]

PricesDiffer(j) ==
    /\ file[j].last_price # None
    /\ FreshOf(j).price # None
    /\ FreshOf(j).price # file[j].last_price

AvailabilitiesDiffer(j) ==
    /\ file[j].last_availability # NoneStr
    /\ FreshOf(j).availability # NoneStr
    /\ FreshOf(j).availability # file[j].last_availability

PriceTexts == {k \in 1..Len(last_changes) : Contains(last_changes[k], KakakuHendou)}

\* C1: a product whose fresh record differs from the stored one neither in
\* price nor in availability yields no change text and no post, and the
\* product is left exactly as it was.
C1_NoChangeLeavesProduct ==
    pc = "diff" =>
        \A j \in 1..(pi - 1) :
            (Looked(j) /\ ~PricesDiffer(j) /\ ~AvailabilitiesDiffer(j)) =>
                /\ products[j] = file[j]
                /\ (j = pi - 1 => last_changes = <<>> /\ ~last_post.attempted)

C1_Witness ==
    /\ pc = "diff"
    /\ pi > 1
    /\ Looked(pi - 1)
    /\ file[pi - 1].last_price = 1000
    /\ FreshOf(pi - 1).price = 1000
    /\ FreshOf(pi - 1).availability = file[pi - 1].last_availability
    /\ products[pi - 1] = file[pi - 1]
    /\ last_changes = <<>>

\* C2: a price-change text is produced exactly when the stored and the fresh
\* price are both present and unequal; exactly then one entry with the fresh
\* price is appended to price_history, whatever the history already holds,
\* and otherwise the history is as it was.
C2_PriceEventAndHistory ==
    pc = "diff" =>
        \A j \in 1..(pi - 1) :
            Looked(j) =>
                /\ products[j].price_history =
                      IF PricesDiffer(j)
                      THEN Append(file[j].price_history,
                                  [price |-> FreshOf(j).price, timestamp |-> clock])
                      ELSE file[j].price_history
                /\ (j = pi - 1 =>
                      Cardinality(PriceTexts) = IF PricesDiffer(j) THEN 1 ELSE 0)

C2_Witness ==
    /\ pc = "diff"
    /\ pi > 1
    /\ Looked(pi - 1)
    /\ PriceTexts # {}
    /\ LET h == products[pi - 1].price_history
       IN  /\ Len(h) = 3
           /\ h[3].price = h[1].price
           /\ h[3].price # h[2].price

\* C3 (as claimed): the template of a post is "flash_sale" exactly when the
\* price went down by at least 10 percent of a positive old price, and
\* "default" otherwise.
C3_FlashSaleIffTenPercentDrop ==
    (pc = "diff" /\ pi = 2 /\ Looked(1) /\ last_post.attempted) =>
        LET old == file[1].last_price
            new == FreshOf(1).price
            drop == /\ PricesDiffer(1)
                    /\ new < old
                    /\ old > 0
                    /\ (old - new) * 100 >= 10 * old
        IN  last_post.template_name = IF drop THEN "flash_sale" ELSE "default"

\* C4: the text handed to the transport never exceeds 280 characters; a
\* text within the limit is sent as built; otherwise the name is shortened
\* first (to the first max(10, nameLen - (bodyLen - 270)) characters of the
\* name plus "..."), and what is still over 280 is cut to its first 277
\* characters plus "...", 280 in all.
C4_PostWithinLimit ==
    (pc = "diff" /\ pi > 1 /\ last_post.attempted) =>
        LET b == last_post.built
            s == last_post.shortened
            p == last_post.post
            name == products[pi - 1].name
            n == Len(name)
            lim == Max2(10, n - (Len(b) - 270))
            kept == IF n < lim THEN n ELSE lim
        IN  /\ Len(p) <= 280
            /\ Len(b) <= 280 => s = b
            /\ (Len(b) > 280 /\ n > 0 /\ \A i \in 1..n : name[i] = "x") =>
                   /\ Len(s) = Len(b) - n + kept + 3
                   /\ \E i \in 1..Len(s) :
                         SubSeq(s, i, i + kept + 2) = SubSeq(name, 1, kept) \o Ellipsis
            /\ Len(s) <= 280 => p = s
            /\ Len(s) > 280 =>
                   /\ Len(p) = 280
                   /\ SubSeq(p, 1, 277) = SubSeq(s, 1, 277)
                   /\ SubSeq(p, 278, 280) = Ellipsis

C4_Witness ==
    /\ pc = "diff"
    /\ pi > 1
    /\ last_post.attempted
    /\ Len(products[pi - 1].name) = LongLen
    /\ Len(last_post.built) > 280
    /\ last_post.shortened # last_post.built
    /\ Len(last_post.shortened) > 280
    /\ Len(last_post.post) = 280

\* C5 (as claimed): with the access key, the secret or the partner tag
\* absent, the signer returns no header set with an Authorization header
\* and no catalog request is sent.
C5_NoRequestWithoutCredentials ==
    (PA_API_KEY = NoneStr \/ PA_API_SECRET = NoneStr \/ PARTNER_TAG = NoneStr) =>
        request_log = <<>>

\* C6: a batch whose call fails is skipped and every remaining batch is still
\* requested; a product whose item id is not among the fresh results is left
\* as it was, while the products that are among them are compared and, on a
\* change, updated.
C6_FailedBatchSkipped ==
    /\ pc = "diff" =>
          /\ Len(request_log) = Len(asin_chunks)
          /\ \A c \in 1..Len(request_log) : request_log[c].ItemIds = asin_chunks[c]
    /\ pc \in {"fetch", "diff"} =>
          \A c \in 1..Len(request_log) :
              request_log[c].answer \in {"error", "status", "empty"} =>
                  \A k \in 1..Len(asin_chunks[c]) :
                      asin_chunks[c][k] \notin DOMAIN updated_products
    /\ pc = "diff" =>
          \A j \in 1..(pi - 1) :
              IF ~Looked(j) THEN products[j] = file[j]
              ELSE (PricesDiffer(j) \/ AvailabilitiesDiffer(j)) =>
                       /\ products[j].last_price = FreshOf(j).price
                       /\ products[j].last_availability = FreshOf(j).availability
                       /\ products[j].last_checked = clock

C6_Witness ==
    /\ pc = "diff"
    /\ pi > Len(products)
    /\ Len(request_log) = 2
    /\ request_log[1].answer = "error"
    /\ request_log[2].answer = "items"
    /\ products[1] = file[1]
    /\ products[Len(products)] # file[Len(products)]

\* C7 (as claimed): when the request for a batch after the first is issued,
\* the products of the batches before it have already been compared.
C7_BatchComparedBeforeNextRequest ==
    pc \in {"fetch", "diff"} =>
        \A k \in 2..Len(request_log) :
            request_log[k].compared >= BatchSize * (k - 1)

\* C7 (amended): the products are asked for in order, in batches of at most
\* 10 item ids, one signed request per batch; the answer to a batch is parsed
\* into the cycle's fresh results before the next request; no product is
\* compared before the request for the last batch has been issued.
C7_FetchAllThenCompare ==
    pc \in {"fetch", "diff"} =>
        /\ Flatten(asin_chunks) = [j \in 1..Len(products) |-> products[j].asin]
        /\ \A k \in 1..Len(request_log) :
              /\ request_log[k].ItemIds = asin_chunks[k]
              /\ Len(request_log[k].ItemIds) \in 1..10
              /\ request_log[k].Authorization # NoneStr
              /\ request_log[k].compared = 0
              /\ request_log[k].answer = "items" =>
                    \A i \in 2..Len(asin_chunks[k]) :
                        asin_chunks[k][i] \in DOMAIN updated_products
        /\ pc = "fetch" =>
              /\ Len(request_log) = ci - 1
              /\ pi = 1
              /\ products = file
              /\ last_changes = <<>>
        /\ pc = "diff" => Len(request_log) = Len(asin_chunks)

C7_Witness ==
    /\ pc = "diff"
    /\ Len(asin_chunks) = 2
    /\ Len(request_log) = 2
    /\ request_log[1].answer = "items"
    /\ pi > BatchSize
    /\ products[1] # file[1]

\* C8 (as claimed): when an interrupt has stopped a cycle, every product
\* updated in that cycle is in the stored file with its update.
C8_InterruptKeepsUpdates ==
    pc = "stopped" =>
        \A j \in 1..Len(products) : file[j] = products[j]

\* C9 (as claimed): the post of a price change holds exactly one price line,
\* whose diff is |new - old| and whose percent is |deltaPercent| rounded to
\* one decimal place.
C9_PriceLineCarriesDelta ==
    (pc = "diff" /\ pi = 2 /\ Looked(1) /\ last_post.attempted /\ PricesDiffer(1)) =>
        LET old == file[1].last_price
            new == FreshOf(1).price
            price_lines == SelectSeq(last_post.lines,
                                     LAMBDA l : l.kind \in {"price_up", "price_down"})
        IN  /\ Len(price_lines) = 1
            /\ price_lines[1].diff = Abs(new - old)
            /\ IF old > 0
               THEN 2 * Abs(price_lines[1].percent * old - Abs(new - old) * 1000) <= old
               ELSE price_lines[1].percent = 0

\* C10 (as claimed): every tracked product has a non-empty price_history, the
\* entries it had are still there unchanged, and the price of its last entry
\* is the product's last_price.
C10_HistoryEndsWithLastPrice ==
    \A j \in 1..Len(products) :
        LET h == products[j].price_history
        IN  /\ h # <<>>
            /\ h[Len(h)].price = products[j].last_price
            /\ j <= Len(file) =>
                  /\ Len(file[j].price_history) <= Len(h)
                  /\ SubSeq(h, 1, Len(file[j].price_history)) = file[j].price_history

\* C11 (as claimed): in every signed request, the date of the credential
\* scope and the date the signing key is derived from are the first 8
\* characters of the x-amz-date header, which is also the timestamp of the
\* string-to-sign.
C11_DateStampIsDateOfAmzDate ==
    \A k \in 1..Len(request_log) :
        LET headers == request_log[k]
            date == SubSeq(headers.x_amz_date, 1, 8)
            signature == headers.Authorization.Signature
        IN  /\ SubSeq(headers.Authorization.credential_scope, 1, 8) = date
            /\ signature.signing_key[2] = date
            /\ signature.string_to_sign.amz_date = headers.x_amz_date
            /\ SubSeq(signature.string_to_sign.credential_scope, 1, 8) = date

====
